---- MODULE Spec2Model ----
(***************************************************************************)
(* Model of prepare_3d_data.py: the VtkImage lazy transform pipeline, the  *)
(* per-scan processing function process_scan and the batch driver main.    *)
(*                                                                         *)
(* Strings that the code treats as paths are sequences of tokens; the      *)
(* token "/" is the separator, "dicom" and "3d" are the two words the code *)
(* rewrites, every other token is an opaque piece of a name.               *)
(* Python's None is the empty sequence, a present value v is <<v>>.        *)
(***************************************************************************)
EXTENDS Integers, Sequences, FiniteSets, TLC

VARIABLES
    vtk,        \* the VtkImage object under test: its fields, or its reader before __init__
    vpc,        \* "new" | "ready" | "rejected" : position of the VtkImage client
    ret,        \* what the last get_slices call returned or raised (None after a setter)
    updates,    \* update_image runs since the last setter call
    completed,  \* update_image runs that stored self.image since the last setter call
    built       \* the transform assembled by the last update_image run since the last setter call

vtkVars == <<vtk, vpc, ret, updates, completed, built>>

VARIABLES
    paths,      \* the scan_dir strings handed to process_scan, in submission order
    series,     \* per scan: what its directory holds (reader facts, files, centroid)
    dirs,       \* directories that exist (normalised paths)
    files,      \* files that exist: [path, owner, kind]; owner 0 is the input data
    pc,         \* per scan: position inside process_scan
    loc,        \* per scan: the locals of process_scan
    status,     \* per scan: state of its future in the executor
    mpc,        \* position of main
    mi,         \* index of the next result main waits for
    cpus        \* multiprocessing.cpu_count()

scanVars == <<paths, series, dirs, files, pc, loc, status, mpc, mi, cpus>>
vars == <<vtk, vpc, ret, updates, completed, built,
          paths, series, dirs, files, pc, loc, status, mpc, mi, cpus>>

-----------------------------------------------------------------------------
(* Generic helpers *)

None == <<>>
Some(v) == <<v>>

Max(a, b) == IF a >= b THEN a ELSE b
Min(a, b) == IF a <= b THEN a ELSE b
Min3(t) == Min(t[1], Min(t[2], t[3]))

-----------------------------------------------------------------------------
(* Bounds of the VtkImage model *)

MaxSpacing == 1         \* reslice spacings range over -1 .. MaxSpacing
MaxXSize == 2           \* reader extent maxX - minX ranges over 0 .. MaxXSize
MaxOrigin == 2          \* origin_x ranges over -1 .. MaxOrigin
MaxGets == 2            \* get_slices calls tracked between two setter calls

(* Program constants *)
BG_HU == -2000
MIN_DEPTH == 5

SpacingVals == -1 .. MaxSpacing
\* post-reslice spacings: in-plane spacing is one number for both axes
SpacingTriples == {<<p, p, z>> : p \in SpacingVals, z \in SpacingVals}
OriginVals == -1 .. MaxOrigin
AngleVals == {0, 1}
DepthVals == {MIN_DEPTH - 1, MIN_DEPTH}

SpacingArgs == {[policy |-> "auto", value |-> None],
                [policy |-> "none", value |-> None],
                [policy |-> "explicit", value |-> Some(<<1, 1, 1>>)]}

\* What vtkDICOMImageReader reports for a series: orientation, bounds, extent,
\* and what the reslice filter reports downstream of it (spacing, dimensions).
Readers ==
    [orientation : {<<1, 0, 0, 0, y2, z2>> : y2 \in {0, 1}, z2 \in {0, 1}},
     bound5 : {4},
     extent : {<<lo, lo + m, 0, 3, 0, 3>> : lo \in {0, 1}, m \in 0 .. MaxXSize},
     spacing : SpacingTriples,
     dims : {<<4, 4, d>> : d \in DepthVals}]

-----------------------------------------------------------------------------
(* VtkImage *)

\* atan(z2 / y2), kept symbolic
Atan(num, den) == [atan_num |-> num, atan_den |-> den]

ShearParams(rad_tilt, minus_center_z) ==
    [rad_tilt |-> rad_tilt, minus_center_z |-> minus_center_z]

DeriveShear(reader) ==
    LET y2 == reader.orientation[5]
        z2 == reader.orientation[6]
        rad_tilt == Atan(z2, y2)
        center_z == reader.bound5 \div 2
    IN  ShearParams(rad_tilt, -center_z)

\* VtkImage.__init__: raised is "" when the object was constructed
VtkImage(reader, spacing) ==
    IF reader.orientation[5] = 0
    THEN [raised |-> "Exception", self |-> None]
    ELSE [raised |-> "",
          self |-> Some([reader |-> reader,
                         image_orientation |-> reader.orientation,
                         shear_params |-> DeriveShear(reader),
                         spacing |-> spacing,
                         angle_z |-> 0,
                         angle_y |-> 0,
                         origin_x |-> None,
                         image |-> None])]

set_transform(self, angle_z, angle_y, origin_x) ==
    [self EXCEPT !.angle_z = angle_z, !.angle_y = angle_y,
                 !.origin_x = origin_x, !.image = None]

set_spacing_keeps_cache(self, spacing) ==
    [self EXCEPT !.spacing = spacing]

set_spacing(self, spacing) ==
    [self EXCEPT !.spacing = spacing, !.image = None]

PadExtent_one_sided(extent, origin_x) ==
    LET x_size == extent[2] - extent[1]
    IN  [extent EXCEPT ![2] = extent[2] + Max(2 * origin_x - x_size, 0)]

\* lines 86-89: the output extent of the constant pad
PadExtent(extent, origin_x) ==
    LET x_size == extent[2] - extent[1]
        minX == extent[1] - Max(x_size - 2 * origin_x, 0)
        maxX == extent[2] + Max(2 * origin_x - x_size, 0)
    IN  [extent EXCEPT ![1] = minX, ![2] = maxX]

Shear(params) == [op |-> "Shear", a |-> 0, tilt |-> params.rad_tilt, c |-> params.minus_center_z]
RotateWXYZ(w, x, y, z) == [op |-> "RotateWXYZ", w |-> w, axis |-> <<x, y, z>>]

BuildTransform_swapped(shear_params, angle_z, angle_y) ==
    IF angle_z # 0 \/ angle_y # 0
    THEN <<Shear(shear_params), RotateWXYZ(angle_y, 0, 1, 0), RotateWXYZ(-angle_z, 0, 0, 1)>>
    ELSE <<Shear(shear_params)>>

\* lines 95-102: the calls made on the vtkPerspectiveTransform, in order
BuildTransform(shear_params, angle_z, angle_y) ==
    <<Shear(shear_params)>> \o
    (IF angle_z # 0 \/ angle_y # 0
     THEN <<RotateWXYZ(-angle_z, 0, 0, 1), RotateWXYZ(angle_y, 0, 1, 0)>>
     ELSE <<>>)

\* Python truth value of a number
Truthy(x) == x # 0

\* lines 112-121: [raised, spacing]; spacing None means no resampling
ResolveSpacing(spacing, spacings_lists) ==
    IF spacing.policy = "auto"
    THEN LET min_spacing == Min3(spacings_lists)
         IN  IF ~Truthy(min_spacing)
             THEN [raised |-> "ValueError", spacing |-> None]
             ELSE [raised |-> "", spacing |-> Some(<<min_spacing, min_spacing, min_spacing>>)]
    ELSE IF spacing.policy = "none"
    THEN [raised |-> "", spacing |-> None]
    ELSE [raised |-> "", spacing |-> spacing.value]

\* The configuration a computed image depends on
Config(self) ==
    [angle_z |-> self.angle_z, angle_y |-> self.angle_y,
     origin_x |-> self.origin_x, spacing |-> self.spacing]

\* VtkImage.update_image: [raised, self, transform]
update_image(self) ==
    LET extent == IF self.origin_x # None
                  THEN PadExtent(self.reader.extent, self.origin_x[1])
                  ELSE self.reader.extent
        transform == BuildTransform(self.shear_params, self.angle_z, self.angle_y)
        spacings_lists == self.reader.spacing
        res == ResolveSpacing(self.spacing, spacings_lists)
        image == [kind |-> IF res.spacing = None THEN "reslice" ELSE "resample",
                  padded |-> self.origin_x # None,
                  background |-> BG_HU,
                  extent |-> extent,
                  transform |-> transform,
                  out_spacing |-> IF res.spacing = None THEN spacings_lists
                                  ELSE res.spacing[1],
                  config |-> Config(self)]
    IN  IF res.raised # ""
        THEN [raised |-> res.raised, self |-> self, transform |-> transform]
        ELSE [raised |-> "", self |-> [self EXCEPT !.image = Some(image)],
              transform |-> transform]

\* VtkImage.get_slices: [raised, self, value, ran, stored, transform];
\* ran: update_image was run; stored: it assigned self.image
get_slices(self) ==
    LET miss == self.image = None
        upd == IF miss THEN update_image(self)
               ELSE [raised |-> "", self |-> self, transform |-> None]
        self1 == upd.self
        tr == IF miss THEN Some(upd.transform) ELSE None
    IN  IF upd.raised # ""
        THEN [raised |-> upd.raised, self |-> self1, value |-> None,
              ran |-> miss, stored |-> FALSE, transform |-> tr]
        ELSE LET image == self1.image[1]
                 rows == self1.reader.dims[1]
                 cols == self1.reader.dims[2]
                 depth == self1.reader.dims[3]
                 array == [shape |-> <<depth, cols, rows>>, image |-> image]
             IN  IF depth < MIN_DEPTH
                 THEN [raised |-> "Exception", self |-> self1, value |-> None,
                       ran |-> miss, stored |-> miss, transform |-> tr]
                 ELSE [raised |-> "", self |-> self1,
                       value |-> Some([array |-> array,
                                       spacing |-> image.out_spacing,
                                       shear_params |-> self1.shear_params]),
                       ran |-> miss, stored |-> miss, transform |-> tr]

-----------------------------------------------------------------------------
(* A client of one VtkImage object: constructs it, then calls the setters   *)
(* and get_slices in any order.                                             *)

VtkInit ==
    /\ vtk \in [reader : Readers, spacing : SpacingArgs]
    /\ vpc = "new"
    /\ ret = None
    /\ updates = 0
    /\ completed = 0
    /\ built = None
    /\ paths = <<>>
    /\ series = <<>>
    /\ dirs = {}
    /\ files = {}
    /\ pc = <<>>
    /\ loc = <<>>
    /\ status = <<>>
    /\ mpc = "unused"
    /\ mi = 0
    /\ cpus = 0

Construct ==
    /\ vpc = "new"
    /\ LET r == VtkImage(vtk.reader, vtk.spacing)
       IN  IF r.raised # ""
           THEN /\ vpc' = "rejected"
                /\ vtk' = vtk
           ELSE /\ vpc' = "ready"
                /\ vtk' = r.self[1]
    /\ UNCHANGED <<ret, updates, completed, built>>
    /\ UNCHANGED scanVars

SetTransform ==
    /\ vpc = "ready"
    /\ \E az \in AngleVals, ay \in AngleVals, ox \in {None} \cup {Some(o) : o \in OriginVals} :
           vtk' = set_transform(vtk, az, ay, ox)
    /\ ret' = None
    /\ updates' = 0
    /\ completed' = 0
    /\ built' = None
    /\ UNCHANGED vpc
    /\ UNCHANGED scanVars

SetSpacing ==
    /\ vpc = "ready"
    /\ \E s \in SpacingArgs : vtk' = set_spacing(vtk, s)
    /\ ret' = None
    /\ updates' = 0
    /\ completed' = 0
    /\ built' = None
    /\ UNCHANGED vpc
    /\ UNCHANGED scanVars

GetSlices ==
    /\ vpc = "ready"
    /\ updates < MaxGets
    /\ LET r == get_slices(vtk)
       IN  /\ vtk' = r.self
           /\ ret' = Some([raised |-> r.raised, value |-> r.value, ran |-> r.ran])
           /\ updates' = IF r.ran THEN updates + 1 ELSE updates
           /\ completed' = IF r.stored THEN completed + 1 ELSE completed
           /\ built' = IF r.ran
                       THEN Some([transform |-> r.transform[1], config |-> Config(vtk)])
                       ELSE built
    /\ UNCHANGED vpc
    /\ UNCHANGED scanVars

VtkNext == Construct \/ SetTransform \/ SetSpacing \/ GetSlices

SpecVtk == VtkInit /\ [][VtkNext]_vars

-----------------------------------------------------------------------------
(* Path strings *)

StartsWith(s, p) == Len(s) >= Len(p) /\ SubSeq(s, 1, Len(p)) = p

\* str.replace(old, new): every non-overlapping occurrence, left to right
RECURSIVE Replace(_, _, _)
Replace(s, old, new) ==
    IF s = <<>> THEN <<>>
    ELSE IF StartsWith(s, old)
    THEN new \o Replace(SubSeq(s, Len(old) + 1, Len(s)), old, new)
    ELSE <<Head(s)>> \o Replace(Tail(s), old, new)

\* the components of a path string: the names between separators, unresolved
RECURSIVE Split(_, _)
Split(s, cur) ==
    IF s = <<>> THEN (IF cur = <<>> THEN <<>> ELSE <<cur>>)
    ELSE IF Head(s) = "/"
    THEN (IF cur = <<>> THEN <<>> ELSE <<cur>>) \o Split(Tail(s), <<>>)
    ELSE Split(Tail(s), Append(cur, Head(s)))

Components(s) == Split(s, <<>>)

\* the directory a list of components names once ".." is followed
RECURSIVE Resolve(_, _)
Resolve(comps, acc) ==
    IF comps = <<>> THEN acc
    ELSE IF Head(comps) = <<"..">>
    THEN Resolve(Tail(comps), IF acc = <<>> THEN <<>> ELSE SubSeq(acc, 1, Len(acc) - 1))
    ELSE Resolve(Tail(comps), Append(acc, Head(comps)))

Norm(s) == Resolve(Components(s), <<>>)

IsPrefix(a, b) == Len(a) <= Len(b) /\ SubSeq(b, 1, Len(a)) = a
Prefixes(d) == {SubSeq(d, 1, k) : k \in 1 .. Len(d)}

\* the operating system walks a path name by name: every directory on the way
\* to the last name has to exist
Reachable(s, ds) ==
    LET c == Components(s)
    IN  \A k \in 1 .. Len(c) - 1 :
            LET d == Resolve(SubSeq(c, 1, k), <<>>) IN d = <<>> \/ d \in ds

-----------------------------------------------------------------------------
(* process_scan *)

OUT_SIZE == <<400, 400>>

OutDir(scan_dir) == Replace(scan_dir, <<"dicom", "/">>, <<"3d", "/">>)

MetaPath(out_dir) == out_dir \o <<"..", "/", "meta.json">>

\* f'{idx:03d}.npy' for the indices the model reaches
Fmt03 == <<"000.npy", "001.npy", "002.npy", "003.npy", "004.npy", "005.npy",
           "006.npy", "007.npy", "008.npy", "009.npy">>

SlicePath(out_dir, idx) == out_dir \o <<Fmt03[idx + 1]>>

\* shutil.rmtree(d, ignore_errors=True) on the existing directories and files
RmtreeDirs(d, ds) == {x \in ds : ~IsPrefix(Norm(d), x)}
RmtreeFiles(d, fs) == {f \in fs : ~IsPrefix(Norm(d), f.path)}

\* os.makedirs(d, exist_ok=True)
Makedirs(d, ds) == ds \cup Prefixes(Norm(d))

\* the entries of directory d
Listing(d, fs) == {f \in fs : Len(f.path) = Len(Norm(d)) + 1 /\ IsPrefix(Norm(d), f.path)}

\* open(p, 'w') / np.save(p, ...) by scan s: the file now holds what s wrote
WriteFile(p, s, kind, fs) ==
    {f \in fs : f.path # Norm(p)} \cup {[path |-> Norm(p), owner |-> s, kind |-> kind]}

\* what vtkDICOMImageReader yields for a directory without slices
EmptyReader ==
    [orientation |-> <<1, 0, 0, 0, 1, 0>>, bound5 |-> 0,
     extent |-> <<0, 0, 0, 0, 0, 0>>, spacing |-> <<1, 1, 1>>, dims |-> <<0, 0, 0>>]

\* the series the reader sees in scan_dir: the input unless it was deleted
ReadSeries(s) ==
    IF \E f \in Listing(paths[s], files) : f.owner = 0
    THEN series[s].reader
    ELSE EmptyReader

Catches_only_ValueError(exc) == exc = "ValueError"

\* line 171: `except Exception` catches every exception the primary path raises
Catches(exc) == exc \in {"Exception", "ValueError"}

\* lines 167-169: the body of the try; raised is what it raised, "" if nothing
PrimaryPath(reader) ==
    LET made == VtkImage(reader, [policy |-> "none", value |-> None])
    IN  IF made.raised # ""
        THEN [raised |-> made.raised, scan |-> None, spacing |-> None,
              image_orientation |-> None]
        ELSE LET vtk_image == made.self[1]
                 got == get_slices(vtk_image)
             IN  IF got.raised # ""
                 THEN [raised |-> got.raised, scan |-> None, spacing |-> None,
                       image_orientation |-> None]
                 ELSE [raised |-> "",
                       scan |-> Some([shape |-> got.value[1].array.shape, via |-> "primary"]),
                       spacing |-> Some(got.value[1].spacing),
                       image_orientation |-> Some(vtk_image.image_orientation)]

FallbackPath_skips_bad_slices(s) ==
    LET entries == Listing(paths[s], files)
        n == Cardinality(entries)
        ser == series[s]
    IN  IF Norm(paths[s]) \notin dirs
        THEN [raised |-> "FileNotFoundError", scan |-> None]
        ELSE [raised |-> "",
              scan |-> Some([shape |-> <<IF ser.fallback = "ok" THEN n ELSE 0,
                                         ser.size[1], ser.size[2]>>,
                             via |-> "fallback"])]

\* lines 175-181: the fallback stack loader on the entries of scan_dir
FallbackPath(s) ==
    LET entries == Listing(paths[s], files)
        n == Cardinality(entries)
        ser == series[s]
    IN  IF Norm(paths[s]) \notin dirs
        THEN [raised |-> "FileNotFoundError", scan |-> None]
        ELSE IF n > 0 /\ (ser.fallback = "unreadable" \/ \E f \in entries : f.owner # 0)
        THEN [raised |-> "LoadError", scan |-> None]
        ELSE IF n = 0 \/ ser.fallback = "ragged"
        THEN [raised |-> "ValueError", scan |-> None]
        ELSE [raised |-> "",
              scan |-> Some([shape |-> <<n, ser.size[1], ser.size[2]>>, via |-> "fallback"])]

\* ndimage.center_of_mass(scan > 0) along an axis of length n, doubled so that
\* half-voxel positions stay integers; the mask's position is an input
Centroid2(kind, n) ==
    CASE kind = "lo" -> 0
      [] kind = "half" -> 1
      [] kind = "mid" -> n - 1
      [] kind = "hi" -> 2 * (n - 1)

\* data.utils.crop_scan along one axis of length n: the window of `target`
\* voxels around centroid c2 / 2, lower edge floored, padded where it leaves
\* the volume; the result is the length of the cropped axis
CropAxis(n, c2, target) ==
    LET lo == (c2 - target) \div 2
        hi == lo + target
        before == Max(0, Min(hi, 0) - lo)
        inner == Max(0, Min(hi, n) - Max(lo, 0))
        after == Max(0, hi - Max(lo, n))
    IN  before + inner + after

crop_scan(shape, size, x2, y2) ==
    <<shape[1], CropAxis(shape[2], y2, size[2]), CropAxis(shape[3], x2, size[1])>>

MetaRecord_pre_crop(l, x, y, scan_cropped) ==
    [spacing |-> l.spacing, image_orientation |-> l.image_orientation,
     crop_x |-> x, crop_y |-> y,
     pre_crop_shape |-> l.scan[1].shape, out_shape |-> l.scan[1].shape]

\* lines 187-194
MetaRecord(l, x, y, scan_cropped) ==
    [spacing |-> l.spacing, image_orientation |-> l.image_orientation,
     crop_x |-> x, crop_y |-> y,
     pre_crop_shape |-> l.scan[1].shape, out_shape |-> scan_cropped]

NoLocals ==
    [out_dir |-> <<>>, caught |-> "", fell_back |-> FALSE, scan |-> None,
     spacing |-> None, image_orientation |-> None, scan_cropped |-> None,
     meta |-> None, idx |-> 0, saved |-> <<>>, raised |-> "", stage |-> ""]

Scans == 1 .. Len(paths)

Raise(s, what, stage) ==
    /\ pc' = [pc EXCEPT ![s] = "raised"]
    /\ loc' = [loc EXCEPT ![s].raised = what, ![s].stage = stage]
    /\ status' = [status EXCEPT ![s] = "failed"]

\* line 162-163
Rmtree(s) ==
    /\ pc[s] = "rmtree"
    /\ LET out_dir == OutDir(paths[s])
       IN  /\ loc' = [loc EXCEPT ![s].out_dir = out_dir]
           /\ dirs' = RmtreeDirs(out_dir, dirs)
           /\ files' = RmtreeFiles(out_dir, files)
    /\ pc' = [pc EXCEPT ![s] = "makedirs"]
    /\ UNCHANGED <<paths, series, status, mpc, mi, cpus, vtkVars>>

\* line 164
MakeOutDir(s) ==
    /\ pc[s] = "makedirs"
    /\ dirs' = Makedirs(loc[s].out_dir, dirs)
    /\ pc' = [pc EXCEPT ![s] = "try"]
    /\ UNCHANGED <<paths, series, files, loc, status, mpc, mi, cpus, vtkVars>>

\* lines 166-173
Primary(s) ==
    /\ pc[s] = "try"
    /\ LET r == PrimaryPath(ReadSeries(s))
       IN  IF r.raised # "" /\ ~Catches(r.raised)
           THEN Raise(s, r.raised, "primary")
           ELSE /\ loc' = [loc EXCEPT ![s].caught = r.raised, ![s].scan = r.scan,
                                      ![s].spacing = r.spacing,
                                      ![s].image_orientation = r.image_orientation]
                /\ pc' = [pc EXCEPT ![s] = IF r.raised # "" THEN "except" ELSE "crop"]
                /\ UNCHANGED status
    /\ UNCHANGED <<paths, series, dirs, files, mpc, mi, cpus, vtkVars>>

\* lines 175-181
Fallback(s) ==
    /\ pc[s] = "except"
    /\ LET r == FallbackPath(s)
       IN  IF r.raised # ""
           THEN /\ pc' = [pc EXCEPT ![s] = "raised"]
                /\ loc' = [loc EXCEPT ![s].raised = r.raised, ![s].stage = "fallback",
                                      ![s].fell_back = TRUE]
                /\ status' = [status EXCEPT ![s] = "failed"]
           ELSE /\ pc' = [pc EXCEPT ![s] = "crop"]
                /\ loc' = [loc EXCEPT ![s].scan = r.scan, ![s].spacing = None,
                                      ![s].image_orientation = None,
                                      ![s].fell_back = TRUE]
                /\ UNCHANGED status
    /\ UNCHANGED <<paths, series, dirs, files, mpc, mi, cpus, vtkVars>>

\* lines 183-194: centroid, crop and the metadata record.  With an empty mask
\* the centroid is NaN; crop_scan then either raises or returns a volume of
\* the target footprint.
Crop(s) ==
    /\ pc[s] = "crop"
    /\ LET shape == loc[s].scan[1].shape
           kind == series[s].centroid
           x == Centroid2(kind[2], shape[3])
           y == Centroid2(kind[1], shape[2])
           nan == kind[1] = "nan"
       IN  \E outcome \in (IF nan THEN {"raise", "ok"} ELSE {"ok"}) :
               IF outcome = "raise"
               THEN Raise(s, "ValueError", "crop")
               ELSE LET scan_cropped ==
                            IF nan THEN <<shape[1], OUT_SIZE[2], OUT_SIZE[1]>>
                            ELSE crop_scan(shape, OUT_SIZE, x, y)
                    IN  /\ loc' = [loc EXCEPT
                               ![s].scan_cropped = Some(scan_cropped),
                               ![s].meta = Some(MetaRecord(loc[s],
                                               IF nan THEN None ELSE Some(x),
                                               IF nan THEN None ELSE Some(y),
                                               scan_cropped))]
                        /\ pc' = [pc EXCEPT ![s] = "meta"]
                        /\ UNCHANGED status
    /\ UNCHANGED <<paths, series, dirs, files, mpc, mi, cpus, vtkVars>>

\* lines 195-196
WriteMeta(s) ==
    /\ pc[s] = "meta"
    /\ LET p == MetaPath(loc[s].out_dir)
       IN  IF ~Reachable(p, dirs) \/ Norm(p) \in dirs \/ Norm(p) = <<>>
           THEN /\ Raise(s, "OSError", "meta")
                /\ UNCHANGED files
           ELSE /\ files' = WriteFile(p, s, "meta", files)
                /\ pc' = [pc EXCEPT ![s] = "save"]
                /\ UNCHANGED <<loc, status>>
    /\ UNCHANGED <<paths, series, dirs, mpc, mi, cpus, vtkVars>>

\* lines 198-199: one iteration of the loop, or its end
SaveSlice(s) ==
    /\ pc[s] = "save"
    /\ LET idx == loc[s].idx
           depth == loc[s].scan_cropped[1][1]
           p == SlicePath(loc[s].out_dir, idx)
       IN  IF idx >= depth
           THEN /\ pc' = [pc EXCEPT ![s] = "returned"]
                /\ status' = [status EXCEPT ![s] = "done"]
                /\ UNCHANGED <<loc, files>>
           ELSE IF ~Reachable(p, dirs) \/ Norm(p) \in dirs
           THEN /\ Raise(s, "OSError", "save")
                /\ UNCHANGED files
           ELSE /\ files' = WriteFile(p, s, "slice", files)
                /\ loc' = [loc EXCEPT ![s].idx = idx + 1,
                                      ![s].saved = Append(@, Fmt03[idx + 1])]
                /\ UNCHANGED <<pc, status>>
    /\ UNCHANGED <<paths, series, dirs, mpc, mi, cpus, vtkVars>>


-----------------------------------------------------------------------------
(* Inputs *)

ExtraFiles == 1         \* a series directory holds 0, 1 or MIN_DEPTH + ExtraFiles files
MaxExtra == 112         \* slice sides range up to OUT_SIZE + MaxExtra

InputNames == <<"a.dcm", "b.dcm", "c.dcm", "d.dcm", "e.dcm", "f.dcm", "g.dcm", "h.dcm">>

DataRoot == <<"data">>

\* one match of glob(f'{data_root}/<split>/*/dicom/')
GlobPath(split, name) == DataRoot \o <<"/", split, "/">> \o name \o <<"/", "dicom", "/">>

InputFiles(scan_dir, n) ==
    {[path |-> Append(Norm(scan_dir), <<InputNames[i]>>), owner |-> 0, kind |-> "input"] :
        i \in 1 .. n}

\* what an earlier run left behind for this scan
StaleFiles(scan_dir) ==
    {[path |-> Norm(SlicePath(OutDir(scan_dir), 9)), owner |-> -1, kind |-> "slice"],
     [path |-> Norm(MetaPath(OutDir(scan_dir))), owner |-> -1, kind |-> "meta"]}

Sizes == {<<1, 1>>, <<OUT_SIZE[2] - 1, OUT_SIZE[1] + MaxExtra>>,
          <<OUT_SIZE[2] + MaxExtra, OUT_SIZE[1]>>}

CentroidKinds == {<<"nan", "nan">>, <<"lo", "hi">>, <<"half", "mid">>,
                  <<"mid", "half">>, <<"hi", "lo">>}

SeriesOf(y2, depth, size, n, fb, c) ==
    [reader |-> [orientation |-> <<1, 0, 0, 0, y2, 1>>, bound5 |-> 4,
                 extent |-> <<0, size[2] - 1, 0, size[1] - 1, 0, depth - 1>>,
                 spacing |-> <<1, 1, 2>>,
                 dims |-> <<size[2], size[1], depth>>],
     size |-> size, nfiles |-> n, fallback |-> fb, centroid |-> c]

AllSeries ==
    {SeriesOf(y2, depth, size, n, fb, c) :
        y2 \in {0, 1}, depth \in DepthVals, size \in Sizes,
        n \in {0, 1, MIN_DEPTH + ExtraFiles}, fb \in {"ok", "unreadable", "ragged"},
        c \in CentroidKinds}

VtkIdle ==
    /\ vtk = None
    /\ vpc = "unused"
    /\ ret = None
    /\ updates = 0
    /\ completed = 0
    /\ built = None

\* one direct call process_scan(scan_dir) on a directory that main's glob yields
ScanInit ==
    /\ VtkIdle
    /\ \E split \in {"train", "test"}, ser \in AllSeries, stale \in BOOLEAN :
           LET scan_dir == GlobPath(split, <<"A">>)
           IN  /\ paths = <<scan_dir>>
               /\ series = <<ser>>
               /\ dirs = Prefixes(Norm(scan_dir)) \cup
                         (IF stale THEN {Norm(OutDir(scan_dir))} ELSE {})
               /\ files = InputFiles(scan_dir, ser.nfiles) \cup
                          (IF stale THEN StaleFiles(scan_dir) ELSE {})
    /\ pc = <<"rmtree">>
    /\ loc = <<NoLocals>>
    /\ status = <<"running">>
    /\ mpc = "call"
    /\ mi = 1
    /\ cpus = 1

ScanNext ==
    \/ \E s \in Scans : Rmtree(s)
    \/ \E s \in Scans : MakeOutDir(s)
    \/ \E s \in Scans : Primary(s)
    \/ \E s \in Scans : Fallback(s)
    \/ \E s \in Scans : Crop(s)
    \/ \E s \in Scans : WriteMeta(s)
    \/ \E s \in Scans : SaveSlice(s)

SpecScan == ScanInit /\ [][ScanNext]_vars

-----------------------------------------------------------------------------
(* A direct call process_scan(scan_dir) with an arbitrary scan_dir *)

MaxPathLen == 4         \* scan_dir strings of 1 .. MaxPathLen tokens

CallTokens == {"A", "/", "dicom"}

CallDirs ==
    {p \in UNION {[1 .. n -> CallTokens] : n \in 1 .. MaxPathLen} : Norm(p) # <<>>}

CallSeries ==
    {SeriesOf(y2, MIN_DEPTH, <<1, 1>>, MIN_DEPTH, "ok", <<"lo", "hi">>) : y2 \in {0, 1}}

CallInit ==
    /\ VtkIdle
    /\ \E scan_dir \in CallDirs, ser \in CallSeries :
           /\ paths = <<scan_dir>>
           /\ series = <<ser>>
           /\ dirs = Prefixes(Norm(scan_dir))
           /\ files = InputFiles(scan_dir, ser.nfiles)
    /\ pc = <<"rmtree">>
    /\ loc = <<NoLocals>>
    /\ status = <<"running">>
    /\ mpc = "call"
    /\ mi = 1
    /\ cpus = 1

SpecCall == CallInit /\ [][ScanNext]_vars

-----------------------------------------------------------------------------
(* main: the ProcessPoolExecutor, its workers and the result loop of           *)
(* executor.map.  Every future is submitted before the first result is taken.  *)
(* The executor keeps its call queue filled with the oldest waiting futures,   *)
(* at most max_workers + 1 of them; a future in the call queue can no longer   *)
(* be cancelled, a future still waiting behind it can.                         *)

MaxScans == 4           \* scan directories on disk
MaxCpus == 2            \* multiprocessing.cpu_count() ranges over 1 .. MaxCpus

StudyNames == {<<"A">>, <<"A", "dicom">>, <<"A", "3d">>}

StudyDirs == {GlobPath("train", n) : n \in StudyNames} \cup {GlobPath("test", <<"A">>)}

IsTest(p) == p[Len(DataRoot) + 2] = "test"

\* lines 204-205: the train matches, then the test matches; the order inside
\* each glob is the directory listing's
GlobOrders(tree) ==
    {q \in [1 .. Cardinality(tree) -> tree] :
        /\ \A i, j \in DOMAIN q : i # j => q[i] # q[j]
        /\ \A i, j \in DOMAIN q : (i < j /\ IsTest(q[i])) => IsTest(q[j])}

\* a short series that the fallback stacks, and one it cannot load
MainSeries ==
    {SeriesOf(1, MIN_DEPTH - 1, <<1, 1>>, 1, "ok", <<"lo", "lo">>),
     SeriesOf(1, MIN_DEPTH - 1, <<1, 1>>, 1, "unreadable", <<"lo", "lo">>)}

MainInit ==
    /\ VtkIdle
    /\ \E tree \in SUBSET StudyDirs :
           /\ Cardinality(tree) \in 1 .. MaxScans
           /\ paths \in GlobOrders(tree)
           /\ series \in [1 .. Cardinality(tree) -> MainSeries]
           /\ dirs = UNION {Prefixes(Norm(p)) : p \in tree}
           /\ files = UNION {InputFiles(paths[s], series[s].nfiles) : s \in 1 .. Cardinality(tree)}
    /\ pc = [s \in Scans |-> "idle"]
    /\ loc = [s \in Scans |-> NoLocals]
    /\ status = [s \in Scans |-> "pending"]
    /\ mpc = "map"
    /\ mi = 1
    /\ cpus \in 1 .. MaxCpus

Count(st) == Cardinality({s \in Scans : status[s] = st})

\* the future of scan s sits in the executor's call queue
InCallQueue(s) ==
    /\ status[s] = "pending"
    /\ Cardinality({t \in Scans : t < s /\ status[t] = "pending"}) < cpus + 1

\* an idle worker takes the oldest call of the call queue and enters process_scan
Start ==
    /\ Count("running") < cpus
    /\ \E s \in Scans :
           /\ status[s] = "pending"
           /\ \A t \in Scans : status[t] = "pending" => s <= t
           /\ status' = [status EXCEPT ![s] = "running"]
           /\ pc' = [pc EXCEPT ![s] = "rmtree"]
    /\ UNCHANGED <<paths, series, dirs, files, loc, mpc, mi, cpus, vtkVars>>

\* line 207: list(...) takes the next result of executor.map, in order
CollectResult ==
    /\ mpc = "map"
    /\ mi <= Len(paths)
    /\ status[mi] = "done"
    /\ mi' = mi + 1
    /\ UNCHANGED <<paths, series, dirs, files, pc, loc, status, mpc, cpus, vtkVars>>

\* line 207: the next result is an exception; it leaves the result iterator,
\* which cancels the futures it has not yielded yet
CollectFailure ==
    /\ mpc = "map"
    /\ mi <= Len(paths)
    /\ status[mi] = "failed"
    /\ status' = [s \in Scans |->
                     IF s > mi /\ status[s] = "pending" /\ ~InCallQueue(s)
                     THEN "cancelled" ELSE status[s]]
    /\ mpc' = "unwind"
    /\ UNCHANGED <<paths, series, dirs, files, pc, loc, mi, cpus, vtkVars>>

\* line 207: every result was taken
MapExhausted ==
    /\ mpc = "map"
    /\ mi > Len(paths)
    /\ mpc' = "exit"
    /\ UNCHANGED <<paths, series, dirs, files, pc, loc, status, mi, cpus, vtkVars>>

\* line 203: leaving the with block waits for the futures that were not cancelled
Shutdown ==
    /\ mpc \in {"exit", "unwind"}
    /\ \A s \in Scans : status[s] \in {"done", "failed", "cancelled"}
    /\ mpc' = IF mpc = "exit" THEN "returned" ELSE "raised"
    /\ UNCHANGED <<paths, series, dirs, files, pc, loc, status, mi, cpus, vtkVars>>

MainNext ==
    \/ Start
    \/ \E s \in Scans : Rmtree(s)
    \/ \E s \in Scans : MakeOutDir(s)
    \/ \E s \in Scans : Primary(s)
    \/ \E s \in Scans : Fallback(s)
    \/ \E s \in Scans : Crop(s)
    \/ \E s \in Scans : WriteMeta(s)
    \/ \E s \in Scans : SaveSlice(s)
    \/ CollectResult
    \/ CollectFailure
    \/ MapExhausted
    \/ Shutdown

SpecMain == MainInit /\ [][MainNext]_vars

-----------------------------------------------------------------------------
(* Claims about VtkImage, checked under SpecVtk *)

Ready == vpc = "ready"

\* C4 as stated: the cache, when present, and every returned volume were
\* computed from the current rotationZ, rotationY, horizontalOrigin and spacing
\* policy, and update_image runs at most once between two setter calls.
C4_Original ==
    Ready =>
        /\ vtk.image # None => vtk.image[1].config = Config(vtk)
        /\ (ret # None /\ ret[1].value # None) =>
               ret[1].value[1].array.image.config = Config(vtk)
        /\ updates <= 1

C4_State ==
    Ready =>
        /\ vtk.image # None => vtk.image[1].config = Config(vtk)
        /\ (ret # None /\ ret[1].value # None) =>
               ret[1].value[1].array.image.config = Config(vtk)
        /\ completed <= 1
        /\ (vtk.image = None) <=> (completed = 0)
        /\ updates > 1 => (completed = 0 /\ ret # None /\ ret[1].raised = "ValueError")

\* a get_slices step recomputes exactly when the cache is empty; a setter step
\* empties the cache and runs no update_image
C4_Step ==
    Ready =>
        /\ ret' # None => (ret'[1].ran <=> vtk.image = None)
        /\ ret' = None => (vtk'.image = None /\ built' = None /\ updates' = 0)

\* C4 (amended): every setter call empties the cache without recomputing;
\* get_slices runs update_image exactly when the cache is empty; a cached or
\* returned volume always reflects the current configuration; update_image
\* stores a volume at most once between two setter calls, and runs more than
\* once only when every run so far raised the invalid-spacing error.
C4_Amended == []C4_State /\ [][C4_Step]_vtkVars

C4_Witness ==
    /\ Ready
    /\ vtk.image # None
    /\ vtk.origin_x # None
    /\ vtk.spacing.policy = "explicit"
    /\ ret # None /\ ret[1].value # None /\ ~ret[1].ran

\* C5 as stated: under policy auto a stored volume was resampled to the minimum
\* spacing on all three axes, and no volume is stored when that minimum is <= 0.
C5_Claim ==
    (Ready /\ vtk.spacing.policy = "auto") =>
        LET m == Min3(vtk.reader.spacing)
        IN  /\ m <= 0 => vtk.image = None
            /\ vtk.image # None =>
                   /\ vtk.image[1].kind = "resample"
                   /\ vtk.image[1].out_spacing = <<m, m, m>>

\* C8: with origin_x set, the padded width extent never shrinks, grows on at
\* most one side, and its centre is old minX + origin_x.
C8_PadCentred ==
    (Ready /\ vtk.image # None /\ vtk.image[1].padded) =>
        LET old == vtk.reader.extent
            new == vtk.image[1].extent
            o == vtk.image[1].config.origin_x[1]
        IN  /\ new[1] <= old[1]
            /\ new[2] >= old[2]
            /\ new[1] = old[1] \/ new[2] = old[2]
            /\ new[1] + new[2] = 2 * (old[1] + o)
            /\ \A i \in 3 .. 6 : new[i] = old[i]

C8_Witness ==
    /\ Ready
    /\ vtk.image # None
    /\ vtk.image[1].padded
    /\ vtk.image[1].extent[1] < vtk.reader.extent[1]

C9_State ==
    /\ Ready => vtk.shear_params = DeriveShear(vtk.reader)
    /\ built # None =>
           LET t == built[1].transform
               c == built[1].config
           IN  /\ t[1] = Shear(DeriveShear(vtk.reader))
               /\ IF c.angle_z = 0 /\ c.angle_y = 0
                  THEN Len(t) = 1
                  ELSE /\ Len(t) = 3
                       /\ t[2] = RotateWXYZ(-c.angle_z, 0, 0, 1)
                       /\ t[3] = RotateWXYZ(c.angle_y, 0, 1, 0)

\* C9: every update_image run builds the transform as: shear with the
\* construction-time ShearParams first; then, iff angle_z or angle_y is
\* nonzero, the rotation by -angle_z about (0,0,1) followed by the rotation by
\* angle_y about (0,1,0); no step changes the ShearParams.
C9_TransformOrder ==
    []C9_State /\ [][Ready => vtk'.shear_params = vtk.shear_params]_vtkVars

C9_Witness ==
    /\ built # None
    /\ built[1].config.angle_z = 0
    /\ built[1].config.angle_y # 0
    /\ Len(built[1].transform) = 3
    /\ ret # None /\ ret[1].raised = "ValueError"

-----------------------------------------------------------------------------
(* Claims about process_scan, checked under SpecScan *)

Past(s, positions) == pc[s] \notin positions

OwnedBy(s, kind) == {f \in files : f.owner = s /\ f.kind = kind}

SliceNames(depth) == [i \in 1 .. depth |-> Fmt03[i]]

\* C1: an error of the primary path (VtkImage's orientation rejection,
\* get_slices' short-volume rejection) never leaves process_scan: the fallback
\* runs exactly when the primary path raised, and a scan that returns after a
\* fallback has persisted its metadata, with spacing and orientation null, and
\* every slice.
C1_PrimaryAbsorbed ==
    \A s \in Scans :
        LET l == loc[s]
            r == ReadSeries(s)
        IN  /\ l.stage # "primary"
            /\ Past(s, {"rmtree", "makedirs", "try"}) =>
                   /\ (r.orientation[5] = 0 \/ r.dims[3] < MIN_DEPTH) <=> l.caught # ""
                   /\ l.caught # "" <=> (pc[s] = "except" \/ l.fell_back)
            /\ (l.fell_back /\ l.raised # "") => l.stage \in {"fallback", "crop"}
            /\ (pc[s] = "returned" /\ l.caught # "") =>
                   /\ l.meta[1].spacing = None
                   /\ l.meta[1].image_orientation = None
                   /\ [path |-> Norm(MetaPath(l.out_dir)), owner |-> s, kind |-> "meta"] \in files
                   /\ \A i \in 0 .. l.scan[1].shape[1] - 1 :
                          [path |-> Norm(SlicePath(l.out_dir, i)), owner |-> s,
                           kind |-> "slice"] \in files

C1_Witness ==
    \E s \in Scans :
        /\ pc[s] = "returned"
        /\ series[s].reader.orientation[5] = 0
        /\ loc[s].caught = "Exception"
        /\ loc[s].meta[1].spacing = None
        /\ Cardinality(OwnedBy(s, "slice")) = MIN_DEPTH + ExtraFiles

\* C2: an error of the fallback path or of centroid/crop leaves process_scan
\* uncaught (the fallback never continues past a slice it cannot load or a
\* stack it cannot build), and that run has written no metadata and no slice.
C2_FallbackAborts ==
    \A s \in Scans :
        LET l == loc[s]
        IN  /\ l.stage \in {"fallback", "crop"} =>
                   /\ pc[s] = "raised"
                   /\ status[s] = "failed"
                   /\ l.raised # ""
                   /\ OwnedBy(s, "meta") = {}
                   /\ OwnedBy(s, "slice") = {}
                   /\ l.saved = <<>>
            /\ (l.fell_back /\ pc[s] # "raised") =>
                   /\ series[s].fallback = "ok"
                   /\ series[s].nfiles > 0
                   /\ l.scan[1].shape[1] = series[s].nfiles

C2_Witness ==
    \E s \in Scans :
        /\ pc[s] = "raised"
        /\ loc[s].stage = "crop"
        /\ loc[s].fell_back
        /\ \E f \in files : f.owner = -1 /\ f.kind = "meta"

\* C6: a scan that process_scan completes has a cropped volume of shape
\* (depth, 400, 400), depth being that of the volume before the crop, records
\* that shape, and has written exactly the slices 000 .. depth-1, in that
\* order; the output directory holds nothing else.
C6_OutputShape ==
    \A s \in Scans :
        pc[s] = "returned" =>
            LET l == loc[s]
                depth == l.scan[1].shape[1]
            IN  /\ l.meta[1].pre_crop_shape = l.scan[1].shape
                /\ l.scan_cropped[1] = <<depth, 400, 400>>
                /\ l.meta[1].out_shape = <<depth, 400, 400>>
                /\ l.saved = SliceNames(depth)
                /\ Listing(l.out_dir, files) =
                       {[path |-> Norm(SlicePath(l.out_dir, i)), owner |-> s,
                         kind |-> "slice"] : i \in 0 .. depth - 1}

C6_Witness ==
    \E s \in Scans :
        /\ pc[s] = "returned"
        /\ loc[s].fell_back
        /\ loc[s].scan[1].shape = <<MIN_DEPTH + ExtraFiles, 400 + MaxExtra, 400>>
        /\ series[s].centroid = <<"hi", "lo">>
        /\ loc[s].meta[1].out_shape = <<MIN_DEPTH + ExtraFiles, 400, 400>>

-----------------------------------------------------------------------------
(* Claims about main and about the paths process_scan targets *)

WipedDir(s) == Norm(OutDir(paths[s]))
MetaTarget(s) == Norm(MetaPath(OutDir(paths[s])))

Overlap(a, b) ==
    \/ IsPrefix(WipedDir(a), WipedDir(b))
    \/ IsPrefix(WipedDir(b), WipedDir(a))
    \/ IsPrefix(WipedDir(a), MetaTarget(b))
    \/ IsPrefix(WipedDir(b), MetaTarget(a))
    \/ MetaTarget(a) = MetaTarget(b)

\* C3 as stated: no scan's future is ever cancelled, and when main is over
\* every scan was processed to its own completion or failure.
C3_Claim ==
    \A s \in Scans :
        /\ status[s] # "cancelled"
        /\ mpc \in {"returned", "raised"} => status[s] \in {"done", "failed"}

\* C7 as stated: two scans running at once never target overlapping output
\* paths, and a finished scan's metadata and slices are never destroyed or
\* overwritten by another scan.
C7_Claim ==
    /\ \A a, b \in Scans :
           (a # b /\ status[a] = "running" /\ status[b] = "running") => ~Overlap(a, b)
    /\ \A s \in Scans :
           status[s] = "done" =>
               /\ [path |-> MetaTarget(s), owner |-> s, kind |-> "meta"] \in files
               /\ \A i \in 0 .. loc[s].scan[1].shape[1] - 1 :
                      [path |-> Norm(SlicePath(loc[s].out_dir, i)), owner |-> s,
                       kind |-> "slice"] \in files

\* C10 as stated: the directory process_scan wipes is not scan_dir and does not
\* contain it, so the input series is still there when it is read.
C10_Claim ==
    \A s \in Scans :
        Past(s, {"idle", "rmtree"}) =>
            /\ ~IsPrefix(WipedDir(s), Norm(paths[s]))
            /\ Past(s, {"makedirs", "try"}) \/
                   InputFiles(paths[s], series[s].nfiles) \subseteq files

====
